---- MODULE Spec2Model ----
(***************************************************************************)
(* Model of aap_eda.services.project.imports.ProjectImportService: the     *)
(* project import pipeline (clone, scan rulebooks/, persist Project /      *)
(* Rulebook / Ruleset / Rule rows inside one atomic block, archive).       *)
(*                                                                         *)
(* Text is modelled as sequences of one-character strings so that          *)
(* os.path.splitext, os.path.relpath, the substring test of Python's "in"  *)
(* and the archive file name format are computed, not assumed.             *)
(***************************************************************************)
EXTENDS Integers, Sequences, FiniteSets, TLC

VARIABLES
    remote,     \* url -> the repository behind it: [head, has_rulebooks, files]
    callsLeft,  \* how many more import_project calls the callers will make
    callers,    \* the processes that call import_project
    pc,         \* per process: position inside ProjectImportService.run
    loc,        \* per process: the locals of run / _import_rulebooks / _import_rulebook
    tx,         \* per process: rows written inside the open atomic block (uncommitted)
    db,         \* the committed tables
    seqs,       \* the database id sequences (never rolled back)
    storage,    \* the archive blobs in file storage (not transactional)
    tempdirs,   \* the temporary directories that exist: invocation -> content
    log,        \* per process: diagnostics the scanner has emitted in the running invocation
    results,    \* per ended invocation: what the caller received
    actor,      \* the process that took the last step (0 initially)
    expander,   \* which names the external expand_ruleset_sources puts in its result
    ids,        \* SpecNames: two project ids, each as its decimal digits (str(id))
    filenames   \* SpecNames: the archive file names formatted for ids (<<>> before)

vars == <<remote, callsLeft, callers, pc, loc, tx, db, seqs, storage, tempdirs,
          log, results, actor, expander, ids, filenames>>

----------------------------------------------------------------------------
\* Bounds of the model.

\* Total number of import_project calls in a behaviour of Spec.
MaxInvocations == 2
\* Largest number of files under rulebooks/ in a tree drawn by InitTree.
MaxFiles == 2

Procs == {1, 2}

----------------------------------------------------------------------------
\* Text helpers.

RECURSIVE Flatten(_, _)
\* "sep".join(parts) over character sequences.
Flatten(parts, sep) ==
    IF parts = <<>> THEN <<>>
    ELSE IF Len(parts) = 1 THEN Head(parts)
    ELSE Head(parts) \o sep \o Flatten(Tail(parts), sep)

\* needle in hay, for two Python str values.
IsSubstring(needle, hay) ==
    \E i \in 0..(Len(hay) - Len(needle)) :
        SubSeq(hay, i + 1, i + Len(needle)) = needle

DigitChar(d) == <<"0", "1", "2", "3", "4", "5", "6", "7", "8", "9">>[d + 1]

RECURSIVE Decimal(_)
\* str(n) for n >= 0.
Decimal(n) == IF n < 10 THEN <<DigitChar(n)>>
              ELSE Decimal(n \div 10) \o <<DigitChar(n % 10)>>

RECURSIVE ZeroPad(_, _)
\* The format spec 0<width>: left-pad with zeros up to width, never truncate.
ZeroPad(s, width) == IF Len(s) >= width THEN s ELSE ZeroPad(<<"0">> \o s, width)

\* TMP_PREFIX = "eda-project-"
TMP_PREFIX == <<"e", "d", "a", "-", "p", "r", "o", "j", "e", "c", "t", "-">>
YML  == <<".", "y", "m", "l">>
YAML == <<".", "y", "a", "m", "l">>
\* Mutant of YAML_EXTENSIONS: ".txt" and ".YML" files are candidates too.
YAML_EXTENSIONS_WIDER == {YML, YAML, <<".", "t", "x", "t">>, <<".", "Y", "M", "L">>}

\* YAML_EXTENSIONS = (".yml", ".yaml")
YAML_EXTENSIONS == {YML, YAML}

SRC_DIR       == <<"s", "r", "c">>
RULEBOOKS_DIR == <<"r", "u", "l", "e", "b", "o", "o", "k", "s">>
RULES_KEY     == <<"r", "u", "l", "e", "s">>
ARCHIVE_NAME  == <<"a", "r", "c", "h", "i", "v", "e", ".", "t", "a", "r", ".", "g", "z">>

\* os.path.splitext(filename)[1] for a name without a separator: the text from
\* the last dot on, unless only dots precede that dot.
SplitextExt(filename) ==
    LET dots == {i \in 1..Len(filename) : filename[i] = "."}
    IN  IF dots = {} THEN <<>>
        ELSE LET dotIndex == CHOOSE i \in dots : \A j \in dots : j <= i
             IN  IF \E k \in 1..(dotIndex - 1) : filename[k] # "."
                 THEN SubSeq(filename, dotIndex, Len(filename))
                 ELSE <<>>

\* Paths are sequences of components; os.path.join appends components.
PathJoin(base, comps) == base \o comps

RECURSIVE CommonLen(_, _)
CommonLen(a, b) ==
    IF a = <<>> \/ b = <<>> \/ Head(a) # Head(b) THEN 0
    ELSE 1 + CommonLen(Tail(a), Tail(b))

\* os.path.relpath(path, start), as text: one ".." per component of start past
\* the common prefix, then the rest of path, joined by "/".
Relpath(path, start) ==
    LET i  == CommonLen(path, start)
        up == [k \in 1..(Len(start) - i) |-> <<".", ".">>]
    IN  Flatten(up \o SubSeq(path, i + 1, Len(path)), <<"/">>)

----------------------------------------------------------------------------
\* Parsed YAML values, as yaml.safe_load returns them.

VNull          == [t |-> "null"]
VInt(n)        == [t |-> "int", n |-> n]
VStr(s)        == [t |-> "str", s |-> s]
VList(items)   == [t |-> "list", items |-> items]
\* A mapping keeps its keys in document order; keys are str.
VMap(keys, vals) == [t |-> "map", keys |-> keys, vals |-> vals]

NAME_KEY    == <<"n", "a", "m", "e">>
ACTION_KEY  == <<"a", "c", "t", "i", "o", "n">>
SOURCES_KEY == <<"s", "o", "u", "r", "c", "e", "s">>

HasKey(v, key) == \E i \in 1..Len(v.keys) : v.keys[i] = key
ValueAt(v, key) == v.vals[CHOOSE i \in 1..Len(v.keys) : v.keys[i] = key]

\* key in v, for a str key: membership for a mapping (its keys) and a list (its
\* items), substring for a str, and a TypeError for a value that is no container.
PyIn(key, v) ==
    CASE v.t = "map"  -> IF HasKey(v, key) THEN "True" ELSE "False"
      [] v.t = "list" -> IF \E i \in 1..Len(v.items) : v.items[i] = VStr(key)
                         THEN "True" ELSE "False"
      [] v.t = "str"  -> IF IsSubstring(key, v.s) THEN "True" ELSE "False"
      [] OTHER        -> "TypeError"

\* v[key], for a str key: [err, val]. A mapping without the key raises KeyError;
\* a str or list is indexed by integers only, other values are not subscriptable.
PyGetItem(v, key) ==
    CASE v.t = "map" /\ HasKey(v, key) -> [err |-> "", val |-> ValueAt(v, key)]
      [] v.t = "map"                   -> [err |-> "KeyError", val |-> VNull]
      [] OTHER                         -> [err |-> "TypeError", val |-> VNull]

\* iter(v): [err, items]. A mapping iterates its keys, a str its characters.
PyIter(v) ==
    CASE v.t = "list" -> [err |-> "", items |-> v.items]
      [] v.t = "map"  -> [err |-> "", items |-> [i \in 1..Len(v.keys) |-> VStr(v.keys[i])]]
      [] v.t = "str"  -> [err |-> "", items |-> [i \in 1..Len(v.s) |-> VStr(<<v.s[i]>>)]]
      [] OTHER        -> [err |-> "TypeError", items |-> <<>>]

RECURSIVE AllRulesIn(_)
\* all("rules" in entry for entry in data): stops at the first False, and an
\* entry that raises before that propagates its TypeError.
AllRulesIn(items) ==
    IF items = <<>> THEN "True"
    ELSE LET r == PyIn(RULES_KEY, Head(items))
         IN  IF r = "True" THEN AllRulesIn(Tail(items)) ELSE r

\* Mutant of _is_rulebook_file: any list is a rulebook, its entries are not tested.
_is_rulebook_file_any_list(data) == IF data.t # "list" THEN "False" ELSE "True"

\* ProjectImportService._is_rulebook_file: "True", "False" or "TypeError" (raised).
_is_rulebook_file(data) ==
    IF data.t # "list" THEN "False" ELSE AllRulesIn(data.items)

----------------------------------------------------------------------------
\* The YAML texts that occur in the modelled repositories, and what
\* yaml.safe_load makes of each.

S_r1    == <<"r", "1">>
S_r2    == <<"r", "2">>
S_say   == <<"s", "a", "y">>
S_stop  == <<"s", "t", "o", "p">>
S_hello == <<"h", "e", "l", "l", "o">>
S_debug == <<"d", "e", "b", "u", "g">>
S_none  == <<"n", "o", "n", "e">>
S_range == <<"r", "a", "n", "g", "e">>
S_the_rules == <<"t", "h", "e", " ", "r", "u", "l", "e", "s">>

RuleDoc(name, action) == VMap(<<NAME_KEY, ACTION_KEY>>, <<VStr(name), action>>)
ActDebug == VMap(<<S_debug>>, <<VStr(S_hello)>>)
ActNone  == VMap(<<S_none>>, <<VNull>>)
SrcRange == VMap(<<S_range>>, <<VMap(<<<<"l", "i", "m", "i", "t">>>>, <<VInt(5)>>)>>)

RAW_A        == "- name: r1\n  rules:\n  - {name: say, action: {debug: hello}}\n  - {name: stop, action: {none: null}}\n"
RAW_DUP      == "- name: r1\n  sources:\n  - range: {limit: 5}\n  rules:\n  - {name: say, action: {debug: hello}}\n- name: r1\n  rules:\n  - {name: stop, action: {none: null}}\n  - {name: say, action: {none: null}}\n"
RAW_TWO      == "- name: r2\n  rules: []\n- name: r1\n  rules:\n  - {name: stop, action: {none: null}}\n"
RAW_EMPTY    == "[]\n"
RAW_BAD      == "- name: [r1\n"
RAW_BLANK    == ""
RAW_MAP      == "name: r1\nrules: []\n"
RAW_NORULES  == "- name: r1\n"
RAW_HELLO    == "- hello\n"
RAW_INT      == "- 5\n"
RAW_STR      == "- rules\n"
RAW_SUBSTR   == "- the rules\n"
RAW_NESTED   == "- [rules]\n"
RAW_NONAME   == "- rules: []\n"
RAW_NULLRULES == "- name: r1\n  rules:\n"
RAW_NOACTION == "- name: r1\n  rules:\n  - {name: say}\n"
RAW_SECOND_NORULES == "- name: r1\n  rules: []\n- name: r2\n"

DOC_A == VList(<<
    VMap(<<NAME_KEY, RULES_KEY>>,
         <<VStr(S_r1), VList(<<RuleDoc(S_say, ActDebug), RuleDoc(S_stop, ActNone)>>)>>)>>)
DOC_DUP == VList(<<
    VMap(<<NAME_KEY, SOURCES_KEY, RULES_KEY>>,
         <<VStr(S_r1), VList(<<SrcRange>>), VList(<<RuleDoc(S_say, ActDebug)>>)>>),
    VMap(<<NAME_KEY, RULES_KEY>>,
         <<VStr(S_r1), VList(<<RuleDoc(S_stop, ActNone), RuleDoc(S_say, ActNone)>>)>>)>>)
DOC_TWO == VList(<<
    VMap(<<NAME_KEY, RULES_KEY>>, <<VStr(S_r2), VList(<<>>)>>),
    VMap(<<NAME_KEY, RULES_KEY>>, <<VStr(S_r1), VList(<<RuleDoc(S_stop, ActNone)>>)>>)>>)
DOC_NOACTION == VList(<<
    VMap(<<NAME_KEY, RULES_KEY>>,
         <<VStr(S_r1), VList(<<VMap(<<NAME_KEY>>, <<VStr(S_say)>>)>>)>>)>>)

\* yaml.safe_load(raw_content): [ok, doc]; ok = FALSE is a yaml.YAMLError.
SafeLoad(raw) ==
    CASE raw = RAW_A         -> [ok |-> TRUE, doc |-> DOC_A]
      [] raw = RAW_DUP       -> [ok |-> TRUE, doc |-> DOC_DUP]
      [] raw = RAW_TWO       -> [ok |-> TRUE, doc |-> DOC_TWO]
      [] raw = RAW_EMPTY     -> [ok |-> TRUE, doc |-> VList(<<>>)]
      [] raw = RAW_BAD       -> [ok |-> FALSE, doc |-> VNull]
      [] raw = RAW_BLANK     -> [ok |-> TRUE, doc |-> VNull]
      [] raw = RAW_MAP       ->
            [ok |-> TRUE, doc |-> VMap(<<NAME_KEY, RULES_KEY>>, <<VStr(S_r1), VList(<<>>)>>)]
      [] raw = RAW_NORULES   ->
            [ok |-> TRUE, doc |-> VList(<<VMap(<<NAME_KEY>>, <<VStr(S_r1)>>)>>)]
      [] raw = RAW_HELLO     -> [ok |-> TRUE, doc |-> VList(<<VStr(S_hello)>>)]
      [] raw = RAW_INT       -> [ok |-> TRUE, doc |-> VList(<<VInt(5)>>)]
      [] raw = RAW_STR       -> [ok |-> TRUE, doc |-> VList(<<VStr(RULES_KEY)>>)]
      [] raw = RAW_SUBSTR    -> [ok |-> TRUE, doc |-> VList(<<VStr(S_the_rules)>>)]
      [] raw = RAW_NESTED    -> [ok |-> TRUE, doc |-> VList(<<VList(<<VStr(RULES_KEY)>>)>>)]
      [] raw = RAW_NONAME    ->
            [ok |-> TRUE, doc |-> VList(<<VMap(<<RULES_KEY>>, <<VList(<<>>)>>)>>)]
      [] raw = RAW_NULLRULES ->
            [ok |-> TRUE, doc |-> VList(<<VMap(<<NAME_KEY, RULES_KEY>>, <<VStr(S_r1), VNull>>)>>)]
      [] raw = RAW_NOACTION  -> [ok |-> TRUE, doc |-> DOC_NOACTION]
      [] raw = RAW_SECOND_NORULES ->
            [ok |-> TRUE,
             doc |-> VList(<<VMap(<<NAME_KEY, RULES_KEY>>, <<VStr(S_r1), VList(<<>>)>>),
                             VMap(<<NAME_KEY>>, <<VStr(S_r2)>>)>>)]

----------------------------------------------------------------------------
\* Repositories: what a clone puts under <tempdir>/src.  files lists the
\* regular files below rulebooks/ in os.walk order, each with the directory
\* (relative to rulebooks/) that holds it.

A_YML    == <<"a", ".", "y", "m", "l">>
B_YAML   == <<"b", ".", "y", "a", "m", "l">>
C_YML    == <<"c", ".", "y", "m", "l">>
D_TXT    == <<"d", ".", "t", "x", "t">>
E_UPPER  == <<"e", ".", "Y", "M", "L">>
DOT_YML  == <<".", "y", "m", "l">>
SUB      == <<"s", "u", "b">>

File(dir, name, raw) == [dir |-> dir, name |-> name, readable |-> TRUE, raw |-> raw]
Unreadable(dir, name) == [dir |-> dir, name |-> name, readable |-> FALSE, raw |-> ""]
Repo(head, files) == [head |-> head, has_rulebooks |-> TRUE, files |-> files]
BareRepo(head)    == [head |-> head, has_rulebooks |-> FALSE, files |-> <<>>]

RawTexts == {RAW_A, RAW_DUP, RAW_TWO, RAW_EMPTY, RAW_BAD, RAW_BLANK, RAW_MAP,
             RAW_NORULES, RAW_HELLO, RAW_INT, RAW_STR, RAW_SUBSTR, RAW_NESTED,
             RAW_NONAME, RAW_NULLRULES, RAW_NOACTION, RAW_SECOND_NORULES}

\* The files a tree of InitTree is drawn from.
TreeFiles ==
    {File(<<>>, A_YML, raw) : raw \in RawTexts}
    \cup {File(<<>>, B_YAML, raw) : raw \in {RAW_DUP, RAW_BAD, RAW_STR}}
    \cup {Unreadable(<<>>, A_YML)}
    \cup {File(<<>>, name, RAW_A) : name \in {D_TXT, E_UPPER, DOT_YML}}
    \cup {File(<<SUB>>, C_YML, RAW_TWO), File(<<SUB>>, D_TXT, RAW_A)}

\* os.walk is top-down: the files of rulebooks/ itself come before those of its
\* subdirectories, and no two files share a path.
IsWalkOrder(files) ==
    /\ \A i, j \in 1..Len(files) :
          i # j => <<files[i].dir, files[i].name>> # <<files[j].dir, files[j].name>>
    /\ \A i, j \in 1..Len(files) :
          (i < j /\ files[j].dir = <<>>) => files[i].dir = <<>>

Trees == UNION {{t \in [1..n -> TreeFiles] : IsWalkOrder(t)} : n \in 0..MaxFiles}

URL_GOOD  == "https://git.example.com/good.git"
URL_NODIR == "https://git.example.com/nodir.git"
URL_TREE  == "https://git.example.com/tree.git"

\* The remote repositories of Spec.
Fixtures ==
    (URL_GOOD  :> Repo("c0ffee", <<File(<<>>, A_YML, RAW_A)>>))
 @@ (URL_NODIR :> BareRepo("decade"))


----------------------------------------------------------------------------
\* The scanner (_find_rulebooks, _try_load_rulebook) on one file.

\* Mutant of InfoRelpath: the path is taken relative to rulebooks/.
InfoRelpathFromRulebooksDir(repo_path, rulebook_path) ==
    Relpath(rulebook_path, PathJoin(repo_path, <<RULEBOOKS_DIR>>))

\* relpath = os.path.relpath(rulebook_path, repo_path)
InfoRelpath(repo_path, rulebook_path) == Relpath(rulebook_path, repo_path)

\* ProjectImportService._try_load_rulebook: [err, info, warned].  info is <<>>
\* for None and <<RulebookInfo>> otherwise; err is the exception that escapes.
_try_load_rulebook(repo_path, rulebook_path, f) ==
    IF ~f.readable
    THEN [err |-> "OSError", info |-> <<>>, warned |-> FALSE]
    ELSE LET loaded == SafeLoad(f.raw)
         IN  IF ~loaded.ok
             THEN [err |-> "", info |-> <<>>, warned |-> TRUE]
             ELSE LET isrb == _is_rulebook_file(loaded.doc)
                  IN  CASE isrb = "TypeError" ->
                              [err |-> "TypeError", info |-> <<>>, warned |-> FALSE]
                        [] isrb = "False" ->
                              [err |-> "", info |-> <<>>, warned |-> FALSE]
                        [] OTHER ->
                              [err |-> "", warned |-> FALSE,
                               info |-> <<[relpath |-> InfoRelpath(repo_path, rulebook_path),
                                           raw_content |-> f.raw,
                                           content |-> loaded.doc]>>]

Diag(level, path) == [level |-> level, path |-> path]

\* One iteration of the loop of _find_rulebooks over the file f of the clone at
\* repo: [yield, logs, opened].  yield is <<>> or <<RulebookInfo>>.
FindRulebooksStep(repo, f) ==
    LET rulebooks_dir == PathJoin(repo, <<RULEBOOKS_DIR>>)
        root == PathJoin(rulebooks_dir, f.dir)
        path == PathJoin(root, <<f.name>>)
        ext  == SplitextExt(f.name)
    IN  IF ext \notin YAML_EXTENSIONS
        THEN [yield |-> <<>>, logs |-> <<>>, opened |-> FALSE]
        ELSE LET r == _try_load_rulebook(repo, path, f)
             IN  CASE r.err # "" ->
                        [yield |-> <<>>, logs |-> <<Diag("error", path)>>, opened |-> TRUE]
                   [] r.err = "" /\ r.info = <<>> ->
                        [yield |-> <<>>, opened |-> TRUE,
                         logs |-> (IF r.warned THEN <<Diag("warning", path)>> ELSE <<>>)
                                  \o <<Diag("debug", path)>>]
                   [] OTHER ->
                        [yield |-> r.info, logs |-> <<>>, opened |-> TRUE]

----------------------------------------------------------------------------
\* The per-rulebook import (_import_rulebook): the rows it builds.

SrcNone       == [present |-> FALSE, items |-> <<>>]
SrcVal(items) == [present |-> TRUE, items |-> items]

\* The expansion of one ruleset's source declarations.
ExpandSources(v) ==
    IF v.t = "list" THEN [i \in 1..Len(v.items) |-> [expanded |-> v.items[i]]] ELSE <<>>

\* The expansion adapter is external and opaque.  Its result is keyed by
\* ruleset name; whether a ruleset that declares no sources gets an entry (an
\* empty sequence) or none is not fixed, so both adapters are modelled.
Expanders == {"every_name", "declared_only"}

RECURSIVE ExpandInto(_, _)
ExpandInto(items, acc) ==
    IF items = <<>> THEN [err |-> "", map |-> acc]
    ELSE LET data == Head(items)
             name == PyGetItem(data, NAME_KEY)
             srcs == IF HasKey(data, SOURCES_KEY) THEN ValueAt(data, SOURCES_KEY) ELSE VNull
         IN  IF name.err # "" THEN [err |-> name.err, map |-> acc]
             ELSE IF expander = "declared_only" /\ ~HasKey(data, SOURCES_KEY)
             THEN ExpandInto(Tail(items), acc)
             ELSE ExpandInto(Tail(items),
                             (name.val.s :> ExpandSources(srcs)) @@ acc)

\* aap_eda.services.rulebook.expand_ruleset_sources: ruleset name -> expanded
\* sources, one entry per name (a later ruleset of the same name replaces it).
expand_ruleset_sources(content) == ExpandInto(content.items, <<>>)

\* expanded_sources.get(name)
DictGet(map, name) == IF name \in DOMAIN map THEN SrcVal(map[name]) ELSE SrcNone

RECURSIVE RulesetObjsOwnSources(_, _, _, _)
\* Mutant of RulesetObjs: each Ruleset takes the expansion of its own entry's
\* sources, not the value the mapping holds for its name.
RulesetObjsOwnSources(items, rulebook, expanded, inv) ==
    IF items = <<>> THEN [err |-> "", objs |-> <<>>]
    ELSE LET name == PyGetItem(Head(items), NAME_KEY)
             srcs == IF HasKey(Head(items), SOURCES_KEY)
                     THEN ValueAt(Head(items), SOURCES_KEY) ELSE VNull
             rest == RulesetObjsOwnSources(Tail(items), rulebook, expanded, inv)
         IN  IF name.err # "" THEN [err |-> name.err, objs |-> <<>>]
             ELSE IF rest.err # "" THEN rest
             ELSE [err |-> "",
                   objs |-> <<[id |-> 0, rulebook |-> rulebook, name |-> name.val.s,
                               sources |-> SrcVal(ExpandSources(srcs)),
                               inv |-> inv]>> \o rest.objs]

RECURSIVE RulesetObjs(_, _, _, _)
\* The list comprehension of lines 80-87: one unsaved Ruleset per entry of the
\* content, in order; the first entry without a usable "name" raises.
RulesetObjs(items, rulebook, expanded, inv) ==
    IF items = <<>> THEN [err |-> "", objs |-> <<>>]
    ELSE LET name == PyGetItem(Head(items), NAME_KEY)
             rest == RulesetObjs(Tail(items), rulebook, expanded, inv)
         IN  IF name.err # "" THEN [err |-> name.err, objs |-> <<>>]
             ELSE IF rest.err # "" THEN rest
             ELSE [err |-> "",
                   objs |-> <<[id |-> 0, rulebook |-> rulebook, name |-> name.val.s,
                               sources |-> DictGet(expanded, name.val.s),
                               inv |-> inv]>> \o rest.objs]

RECURSIVE RulesOfEntry(_, _, _)
\* The inner loop of lines 90-98 over the rules of one ruleset.
RulesOfEntry(rules, rule_set, inv) ==
    IF rules = <<>> THEN [err |-> "", objs |-> <<>>]
    ELSE LET name   == PyGetItem(Head(rules), NAME_KEY)
             action == PyGetItem(Head(rules), ACTION_KEY)
             rest   == RulesOfEntry(Tail(rules), rule_set, inv)
         IN  IF name.err # "" THEN [err |-> name.err, objs |-> <<>>]
             ELSE IF action.err # "" THEN [err |-> action.err, objs |-> <<>>]
             ELSE IF rest.err # "" THEN rest
             ELSE [err |-> "",
                   objs |-> <<[id |-> 0, ruleset |-> rule_set.id, name |-> name.val.s,
                               action |-> action.val, inv |-> inv]>> \o rest.objs]

RECURSIVE RuleObjsLookup(_, _, _)
RuleObjsLookup(all_sets, items, inv) ==
    IF items = <<>> THEN [err |-> "", objs |-> <<>>]
    ELSE LET name  == PyGetItem(Head(items), NAME_KEY)
             rules == PyGetItem(Head(items), RULES_KEY)
             iter  == PyIter(rules.val)
             first == CHOOSE i \in 1..Len(all_sets) :
                          /\ all_sets[i].name = name.val.s
                          /\ \A j \in 1..(i - 1) : all_sets[j].name # name.val.s
             mine  == RulesOfEntry(iter.items, all_sets[first], inv)
             rest  == RuleObjsLookup(all_sets, Tail(items), inv)
         IN  IF rules.err # "" THEN [err |-> rules.err, objs |-> <<>>]
             ELSE IF iter.err # "" THEN [err |-> iter.err, objs |-> <<>>]
             ELSE IF mine.err # "" THEN mine
             ELSE IF rest.err # "" THEN rest
             ELSE [err |-> "", objs |-> mine.objs \o rest.objs]

\* Mutant of RuleObjs: the parent Ruleset of an entry is found by its name
\* instead of by its position.
RuleObjsByName(rule_sets, items, inv) == RuleObjsLookup(rule_sets, items, inv)

RECURSIVE RuleObjs(_, _, _)
\* The list comprehension of lines 90-98: zip pairs the i-th created Ruleset with
\* the i-th entry of the content and stops at the shorter of the two.
RuleObjs(rule_sets, items, inv) ==
    IF rule_sets = <<>> \/ items = <<>> THEN [err |-> "", objs |-> <<>>]
    ELSE LET rules == PyGetItem(Head(items), RULES_KEY)
             iter  == PyIter(rules.val)
             mine  == RulesOfEntry(iter.items, Head(rule_sets), inv)
             rest  == RuleObjs(Tail(rule_sets), Tail(items), inv)
         IN  IF rules.err # "" THEN [err |-> rules.err, objs |-> <<>>]
             ELSE IF iter.err # "" THEN [err |-> iter.err, objs |-> <<>>]
             ELSE IF mine.err # "" THEN mine
             ELSE IF rest.err # "" THEN rest
             ELSE [err |-> "", objs |-> mine.objs \o rest.objs]

\* Manager.bulk_create: the objects saved in the order given, the i-th taking
\* the i-th next value of the table's id sequence; returns them with their ids.
BulkCreate(objs, lastId) == [i \in 1..Len(objs) |-> [objs[i] EXCEPT !.id = lastId + i]]

----------------------------------------------------------------------------
\* The archive file name of _save_project_archive.

ARCHIVE_SUFFIX == <<".">> \o ARCHIVE_NAME
\* The width of the format spec in f"{project.id:010}.archive.tar.gz".
IdWidth == 10
\* Mutant of ArchiveFilename: the id is not padded.
ArchiveFilenameUnpadded(id) == Decimal(id) \o ARCHIVE_SUFFIX

\* Mutant of ArchiveFilenameOf: the id is cut to its last IdWidth digits.
ArchiveFilenameOfLastDigits(digits) ==
    LET padded == ZeroPad(digits, IdWidth)
    IN  SubSeq(padded, Len(padded) - IdWidth + 1, Len(padded)) \o ARCHIVE_SUFFIX

\* f"{project.id:010}.archive.tar.gz", for the id whose decimal digits are given.
ArchiveFilenameOf(digits) == ZeroPad(digits, IdWidth) \o ARCHIVE_SUFFIX

\* filename = f"{project.id:010}.archive.tar.gz"
ArchiveFilename(id) == ArchiveFilenameOf(Decimal(id))

----------------------------------------------------------------------------
\* State.

Names == {"demo"}

EmptyTables == [projects |-> <<>>, rulebooks |-> <<>>, rulesets |-> <<>>, rules |-> <<>>]

IdleLoc == [inv |-> 0, url |-> "", name |-> "", description |-> "", err |-> "",
            commit_id |-> "", project |-> 0, idx |-> 0, info |-> <<>>,
            rulebook |-> 0, rule_sets |-> <<>>, writes |-> 0]

InitCommon ==
    /\ pc = [p \in Procs |-> "idle"]
    /\ loc = [p \in Procs |-> IdleLoc]
    /\ tx = [p \in Procs |-> EmptyTables]
    /\ db = EmptyTables
    /\ seqs = [tempdir |-> 0, project |-> 0, rulebook |-> 0, ruleset |-> 0, rule |-> 0]
    /\ storage = {}
    /\ tempdirs = <<>>
    /\ log = [p \in Procs |-> <<>>]
    /\ results = <<>>
    /\ actor = 0

\* Concurrent callers importing the fixture repositories.
Init ==
    /\ remote = Fixtures
    /\ callsLeft = MaxInvocations
    /\ callers = Procs
    /\ expander = "every_name"
    /\ InitCommon
    /\ ids = <<>>
    /\ filenames = <<>>

\* One caller, one import of a repository whose rulebooks/ tree is any of Trees,
\* or that has no rulebooks/ directory, with either expansion adapter.
InitTree ==
    /\ \/ \E t \in Trees : remote = (URL_TREE :> Repo("c0ffee", t))
       \/ remote = (URL_TREE :> BareRepo("c0ffee"))
    /\ callsLeft = 1
    /\ callers = {1}
    /\ expander \in Expanders
    /\ InitCommon
    /\ ids = <<>>
    /\ filenames = <<>>

\* <tempdir> and repo_dir = os.path.join(tempdir, "src") of an invocation.
TempdirPath(inv) == <<TMP_PREFIX \o Decimal(inv)>>
RepoDir(inv)     == PathJoin(TempdirPath(inv), <<SRC_DIR>>)

\* Mutant of Pipeline: the Project row is created before the clone.
PipelineProjectFirst(step) ==
    CASE step = "start"          -> "create_project"
      [] step = "create_project" -> "clone"
      [] step = "clone"          -> "rev_parse"
      [] step = "rev_parse"      -> "find_rulebooks"
      [] step = "find_rulebooks" -> "archive"
      [] step = "archive"        -> "save_archive"
      [] step = "save_archive"   -> "exit"

\* Mutant of Pipeline: the archive is produced before the rulebooks are imported.
PipelineArchiveFirst(step) ==
    CASE step = "start"          -> "clone"
      [] step = "clone"          -> "rev_parse"
      [] step = "rev_parse"      -> "create_project"
      [] step = "create_project" -> "archive"
      [] step = "archive"        -> "find_rulebooks"
      [] step = "find_rulebooks" -> "save_archive"
      [] step = "save_archive"   -> "exit"

\* The order of the steps of run: the position that follows each step.
Pipeline(step) ==
    CASE step = "start"          -> "clone"
      [] step = "clone"          -> "rev_parse"
      [] step = "rev_parse"      -> "create_project"
      [] step = "create_project" -> "find_rulebooks"
      [] step = "find_rulebooks" -> "archive"
      [] step = "archive"        -> "save_archive"
      [] step = "save_archive"   -> "exit"

\* An exception leaves the with block and then the atomic block.
Raise(p, e) ==
    /\ pc' = [pc EXCEPT ![p] = "exit"]
    /\ loc' = [loc EXCEPT ![p].err = e]

RaiseAfterWrite(p, e) ==
    /\ pc' = [pc EXCEPT ![p] = "exit"]
    /\ loc' = [loc EXCEPT ![p].err = e, ![p].writes = @ + 1]

\* The cloned repository of process p.
Clone(p) == tempdirs[loc[p].inv].src[1]

----------------------------------------------------------------------------
\* run(): entering the atomic block and the temporary directory.
Start(p) ==
    /\ p \in callers
    /\ pc[p] = "idle"
    /\ callsLeft > 0
    /\ \E url \in DOMAIN remote, name \in Names :
          LET inv == seqs.tempdir + 1
          IN  /\ loc' = [loc EXCEPT ![p] = [IdleLoc EXCEPT !.inv = inv, !.url = url,
                                                          !.name = name]]
              /\ tempdirs' = tempdirs @@ (inv :> [src |-> <<>>, archive |-> FALSE])
              /\ seqs' = [seqs EXCEPT !.tempdir = inv]
    /\ callsLeft' = callsLeft - 1
    /\ pc' = [pc EXCEPT ![p] = Pipeline("start")]
    /\ tx' = [tx EXCEPT ![p] = EmptyTables]
    /\ log' = [log EXCEPT ![p] = <<>>]
    /\ actor' = p
    /\ UNCHANGED <<remote, callers, db, storage, results, expander, ids, filenames>>

\* repo = self._git_cls.clone(url, repo_dir, depth=1)
DoClone(p) ==
    /\ pc[p] = "clone"
    /\ \/ /\ tempdirs' = [tempdirs EXCEPT ![loc[p].inv].src = <<remote[loc[p].url]>>]
          /\ pc' = [pc EXCEPT ![p] = Pipeline("clone")]
          /\ loc' = loc
       \/ /\ Raise(p, "TransferError")
          /\ tempdirs' = tempdirs
    /\ actor' = p
    /\ UNCHANGED <<remote, callsLeft, callers, tx, db, seqs, storage, log, results, expander, ids, filenames>>

\* commit_id = repo.rev_parse("HEAD")
RevParse(p) ==
    /\ pc[p] = "rev_parse"
    /\ \/ /\ pc' = [pc EXCEPT ![p] = Pipeline("rev_parse")]
          /\ loc' = [loc EXCEPT ![p].commit_id = Clone(p).head]
       \/ Raise(p, "ResolutionError")
    /\ actor' = p
    /\ UNCHANGED <<remote, callsLeft, callers, tx, db, seqs, storage, tempdirs, log, results, expander, ids, filenames>>

\* Mutant of InsertProject: get_or_create by url, a committed Project is reused.
InsertProjectDedup(committed, pending, row) ==
    IF \E i \in 1..Len(committed) : committed[i].url = row.url
    THEN pending ELSE Append(pending, row)

\* Mutant of InsertProject: the insert of the Project row is deferred, the rows
\* below it are written first.
InsertProjectDeferred(committed, pending, row) == pending

\* Manager.create of a Project: the pending projects after the insert.
InsertProject(committed, pending, row) == Append(pending, row)

\* project = models.Project.objects.create(url=..., git_hash=..., name=..., description=...)
CreateProject(p) ==
    /\ pc[p] = "create_project"
    /\ \/ LET id  == seqs.project + 1
              row == [id |-> id, url |-> loc[p].url, git_hash |-> loc[p].commit_id,
                      name |-> loc[p].name, description |-> loc[p].description,
                      archive_file |-> <<>>, inv |-> loc[p].inv]
          IN  /\ tx' = [tx EXCEPT ![p].projects = InsertProject(db.projects, @, row)]
              /\ seqs' = [seqs EXCEPT !.project = id]
              /\ loc' = [loc EXCEPT ![p].project = id, ![p].writes = @ + 1]
              /\ pc' = [pc EXCEPT ![p] = Pipeline("create_project")]
       \/ /\ RaiseAfterWrite(p, "DatabaseError")
          /\ UNCHANGED <<tx, seqs>>
    /\ actor' = p
    /\ UNCHANGED <<remote, callsLeft, callers, db, storage, tempdirs, log, results, expander, ids, filenames>>

\* Mutant of RulebooksDirCheck: a missing rulebooks/ directory is an empty walk.
RulebooksDirCheckLenient(repo) == ""

\* Mutant of RulebooksDirCheck: a rulebooks/ directory without files is reported
\* like a missing one.
RulebooksDirCheckNonEmpty(repo) ==
    IF ~repo.has_rulebooks \/ repo.files = <<>> THEN "ProjectImportError" ELSE ""

\* The isdir check that opens _find_rulebooks: the error it raises, "" for none.
RulebooksDirCheck(repo) ==
    IF ~repo.has_rulebooks THEN "ProjectImportError" ELSE ""

RECURSIVE WalkFrom(_, _, _)
\* The loop of _find_rulebooks resumed before the file idx of the walk: it runs
\* to its next yield, or to the end of the walk.  [yield, logs, idx], idx being
\* the file the next resumption starts at.
WalkFrom(repo, files, idx) ==
    IF idx > Len(files) THEN [yield |-> <<>>, logs |-> <<>>, idx |-> idx]
    ELSE LET step == FindRulebooksStep(repo, files[idx])
         IN  IF step.yield # <<>>
             THEN [yield |-> step.yield, logs |-> step.logs, idx |-> idx + 1]
             ELSE LET rest == WalkFrom(repo, files, idx + 1)
                  IN  [rest EXCEPT !.logs = step.logs \o @]

\* for rulebook in self._find_rulebooks(repo): one resumption of the generator.
\* The first one starts it (idx = 0): the isdir check, then the walk.
FindRulebooks(p) ==
    /\ pc[p] = "find_rulebooks"
    /\ LET chk == IF loc[p].idx = 0 THEN RulebooksDirCheck(Clone(p)) ELSE ""
           from == IF loc[p].idx = 0 THEN 1 ELSE loc[p].idx
       IN  IF chk # ""
           THEN /\ Raise(p, chk)
                /\ log' = log
           ELSE LET got == WalkFrom(RepoDir(loc[p].inv), Clone(p).files, from)
                IN  /\ log' = [log EXCEPT ![p] = @ \o got.logs]
                    /\ loc' = [loc EXCEPT ![p].idx = got.idx, ![p].info = got.yield]
                    /\ pc' = [pc EXCEPT ![p] =
                                 IF got.yield = <<>> THEN Pipeline("find_rulebooks")
                                 ELSE "import_rulebook"]
    /\ actor' = p
    /\ UNCHANGED <<remote, callsLeft, callers, tx, db, seqs, storage, tempdirs, results, expander, ids, filenames>>

\* rulebook = models.Rulebook.objects.create(project=project, name=rulebook_info.relpath)
CreateRulebook(p) ==
    /\ pc[p] = "import_rulebook"
    /\ \/ LET id  == seqs.rulebook + 1
              row == [id |-> id, project |-> loc[p].project,
                      name |-> loc[p].info[1].relpath, inv |-> loc[p].inv]
          IN  /\ tx' = [tx EXCEPT ![p].rulebooks = Append(@, row)]
              /\ seqs' = [seqs EXCEPT !.rulebook = id]
              /\ loc' = [loc EXCEPT ![p].rulebook = id, ![p].writes = @ + 1]
              /\ pc' = [pc EXCEPT ![p] = "rulesets"]
       \/ /\ RaiseAfterWrite(p, "DatabaseError")
          /\ UNCHANGED <<tx, seqs>>
    /\ actor' = p
    /\ UNCHANGED <<remote, callsLeft, callers, db, storage, tempdirs, log, results, expander, ids, filenames>>

\* Lines 78-87: the expansion and the unsaved Ruleset objects.  [err, objs].
BuildRulesets(content, rulebook, inv) ==
    LET expanded == expand_ruleset_sources(content)
    IN  IF expanded.err # "" THEN [err |-> expanded.err, objs |-> <<>>]
        ELSE RulesetObjs(content.items, rulebook, expanded.map, inv)

\* expanded_sources = ...; rule_sets = models.Ruleset.objects.bulk_create(rule_sets)
CreateRulesets(p) ==
    /\ pc[p] = "rulesets"
    /\ LET built == BuildRulesets(loc[p].info[1].content, loc[p].rulebook, loc[p].inv)
       IN  IF built.err # ""
           THEN /\ Raise(p, built.err)
                /\ UNCHANGED <<tx, seqs>>
           ELSE \/ LET rows == BulkCreate(built.objs, seqs.ruleset)
                   IN  /\ tx' = [tx EXCEPT ![p].rulesets = @ \o rows]
                       /\ seqs' = [seqs EXCEPT !.ruleset = @ + Len(rows)]
                       /\ loc' = [loc EXCEPT ![p].rule_sets = rows, ![p].writes = @ + 1]
                       /\ pc' = [pc EXCEPT ![p] = "rules"]
                \/ /\ RaiseAfterWrite(p, "DatabaseError")
                   /\ UNCHANGED <<tx, seqs>>
    /\ actor' = p
    /\ UNCHANGED <<remote, callsLeft, callers, db, storage, tempdirs, log, results, expander, ids, filenames>>

\* rules = [...]; models.Rule.objects.bulk_create(rules); return rulebook
CreateRules(p) ==
    /\ pc[p] = "rules"
    /\ LET built == RuleObjs(loc[p].rule_sets, loc[p].info[1].content.items, loc[p].inv)
       IN  IF built.err # ""
           THEN /\ Raise(p, built.err)
                /\ UNCHANGED <<tx, seqs>>
           ELSE \/ LET rows == BulkCreate(built.objs, seqs.rule)
                   IN  /\ tx' = [tx EXCEPT ![p].rules = @ \o rows]
                       /\ seqs' = [seqs EXCEPT !.rule = @ + Len(rows)]
                       /\ loc' = [loc EXCEPT ![p].writes = @ + 1]
                       /\ pc' = [pc EXCEPT ![p] = "find_rulebooks"]
                \/ /\ RaiseAfterWrite(p, "DatabaseError")
                   /\ UNCHANGED <<tx, seqs>>
    /\ actor' = p
    /\ UNCHANGED <<remote, callsLeft, callers, db, storage, tempdirs, log, results, expander, ids, filenames>>

\* repo.archive("HEAD", archive_file, format="tar.gz")
Archive(p) ==
    /\ pc[p] = "archive"
    /\ \/ /\ tempdirs' = [tempdirs EXCEPT ![loc[p].inv].archive = TRUE]
          /\ pc' = [pc EXCEPT ![p] = Pipeline("archive")]
          /\ loc' = loc
       \/ /\ Raise(p, "ArchiveError")
          /\ tempdirs' = tempdirs
    /\ actor' = p
    /\ UNCHANGED <<remote, callsLeft, callers, tx, db, seqs, storage, log, results, expander, ids, filenames>>

\* Mutant of AttachArchive: the blob is stored but the Project row is not saved.
AttachArchiveNoSave(projects, id, filename) == projects

\* The Project rows after project.archive_file.save(filename, fp) has saved the row.
AttachArchive(projects, id, filename) ==
    [i \in 1..Len(projects) |->
        IF projects[i].id = id THEN [projects[i] EXCEPT !.archive_file = filename]
        ELSE projects[i]]

\* with open(archive_file, "rb") as fp: project.archive_file.save(filename, fp)
\* FieldFile.save writes the blob to storage, then saves the Project row.
SaveArchive(p) ==
    /\ pc[p] = "save_archive"
    /\ LET filename == ArchiveFilename(loc[p].project)
           blob     == [name |-> filename, inv |-> loc[p].inv]
       IN  \/ /\ tempdirs[loc[p].inv].archive
              /\ storage' = storage \cup {blob}
              /\ tx' = [tx EXCEPT ![p].projects = AttachArchive(@, loc[p].project, filename)]
              /\ loc' = [loc EXCEPT ![p].writes = @ + 1]
              /\ pc' = [pc EXCEPT ![p] = Pipeline("save_archive")]
           \/ /\ Raise(p, "OSError")
              /\ UNCHANGED <<storage, tx>>
           \/ /\ tempdirs[loc[p].inv].archive
              /\ storage' = storage \cup {blob}
              /\ RaiseAfterWrite(p, "DatabaseError")
              /\ tx' = tx
    /\ actor' = p
    /\ UNCHANGED <<remote, callsLeft, callers, db, seqs, tempdirs, log, results, expander, ids, filenames>>

\* Mutant of TempdirsAfterExit: the directory is removed on the success path only.
TempdirsAfterExitOnSuccess(dirs, inv, err) ==
    IF err = "" THEN [i \in DOMAIN dirs \ {inv} |-> dirs[i]] ELSE dirs

\* TemporaryDirectory.__exit__: the directories left once the with block of the
\* invocation inv is left with the pending exception err ("" for none).
TempdirsAfterExit(dirs, inv, err) == [i \in DOMAIN dirs \ {inv} |-> dirs[i]]

Merge(committed, pending) ==
    [projects  |-> committed.projects \o pending.projects,
     rulebooks |-> committed.rulebooks \o pending.rulebooks,
     rulesets  |-> committed.rulesets \o pending.rulesets,
     rules     |-> committed.rules \o pending.rules]

\* Mutant of TablesAfterAtomic: no rollback, the pending rows are always kept.
TablesAfterAtomicNoRollback(committed, pending, err) ==
    [projects  |-> committed.projects \o pending.projects,
     rulebooks |-> committed.rulebooks \o pending.rulebooks,
     rulesets  |-> committed.rulesets \o pending.rulesets,
     rules     |-> committed.rules \o pending.rules]

\* transaction.atomic on leaving run: the committed tables after the block is
\* left with the exception err ("" for none): commit, or roll back.
TablesAfterAtomic(committed, pending, err) ==
    IF err = "" THEN Merge(committed, pending) ELSE committed

\* Mutant of Outcome: every exception reaches the caller as a ProjectImportError.
OutcomeWrapped(p, err) ==
    [url |-> loc[p].url, error |-> IF err = "" THEN "" ELSE "ProjectImportError",
     project |-> loc[p].project]

\* What the caller receives: the exception, or the Project (error = "").  project
\* is the id of the Project row the invocation created, 0 when it created none.
Outcome(p, err) == [url |-> loc[p].url, error |-> err, project |-> loc[p].project]

\* Leaving the with block of run, on return or with the pending exception:
\* TemporaryDirectory.__exit__ removes the temporary directory.  The atomic
\* block is still open: the rows are pending and the caller has no outcome.
ExitTemporaryDirectory(p) ==
    /\ pc[p] = "exit"
    /\ tempdirs' = TempdirsAfterExit(tempdirs, loc[p].inv, loc[p].err)
    /\ pc' = [pc EXCEPT ![p] = "exit_atomic"]
    /\ actor' = p
    /\ UNCHANGED <<remote, callsLeft, callers, loc, tx, db, seqs, storage, log, results, expander, ids, filenames>>

\* Leaving @transaction.atomic: commit or rollback (the commit itself can
\* fail), and the caller receives the Project or the exception.
ExitAtomic(p) ==
    /\ pc[p] = "exit_atomic"
    /\ \/ /\ db' = TablesAfterAtomic(db, tx[p], loc[p].err)
          /\ results' = results @@ (loc[p].inv :> Outcome(p, loc[p].err))
       \/ /\ loc[p].err = ""
          /\ db' = TablesAfterAtomic(db, tx[p], "DatabaseError")
          /\ results' = results @@ (loc[p].inv :> Outcome(p, "DatabaseError"))
    /\ tx' = [tx EXCEPT ![p] = EmptyTables]
    /\ loc' = [loc EXCEPT ![p] = IdleLoc]
    /\ pc' = [pc EXCEPT ![p] = "idle"]
    /\ actor' = p
    /\ log' = [log EXCEPT ![p] = <<>>]
    /\ UNCHANGED <<remote, callsLeft, callers, seqs, storage, tempdirs, expander, ids, filenames>>

Step(p) ==
    \/ Start(p)
    \/ DoClone(p)
    \/ RevParse(p)
    \/ CreateProject(p)
    \/ FindRulebooks(p)
    \/ CreateRulebook(p)
    \/ CreateRulesets(p)
    \/ CreateRules(p)
    \/ Archive(p)
    \/ SaveArchive(p)
    \/ ExitTemporaryDirectory(p)
    \/ ExitAtomic(p)

Next == \E p \in Procs : Step(p)

Spec == Init /\ [][Next]_vars

SpecTree == InitTree /\ [][Next]_vars

----------------------------------------------------------------------------
\* The archive file name as a function of the project id alone.  The ids are
\* given by their decimal digits, so that ids beyond ten digits are covered.

\* Largest number of decimal digits of a project id drawn by InitNames.
MaxIdDigits == 11

Rep(c, n) == [k \in 1..n |-> c]

\* Project ids: for each number of digits n, 10^(n-1), 11...1 and 10^n - 1;
\* and 42.
IdSamples ==
    UNION {{<<"1">> \o Rep("0", n - 1), Rep("1", n), Rep("9", n)} : n \in 1..MaxIdDigits}
    \cup {<<"4", "2">>}

\* No import is running; two Project rows with the ids ids[1] and ids[2] are
\* about to have their archives named.
InitNames ==
    /\ remote = Fixtures
    /\ callsLeft = 0
    /\ callers = {}
    /\ expander = "every_name"
    /\ InitCommon
    /\ ids \in IdSamples \X IdSamples
    /\ filenames = <<>>

\* filename = f"{project.id:010}.archive.tar.gz", for both ids.
FormatNames ==
    /\ filenames = <<>>
    /\ filenames' = <<ArchiveFilenameOf(ids[1]), ArchiveFilenameOf(ids[2])>>
    /\ UNCHANGED <<remote, callsLeft, callers, pc, loc, tx, db, seqs, storage,
                   tempdirs, log, results, actor, expander, ids>>

NextNames == FormatNames

SpecNames == InitNames /\ [][NextNames]_vars

----------------------------------------------------------------------------
\* Vocabulary of the properties.

Ended     == DOMAIN results
Failed    == {i \in Ended : results[i].error # ""}
Succeeded == {i \in Ended : results[i].error = ""}
Running   == {p \in Procs : pc[p] # "idle"}
\* The processes inside the with block of run: their temporary directory exists.
InWith    == {p \in Procs : pc[p] \notin {"idle", "exit_atomic"}}

Range(seq) == {seq[i] : i \in 1..Len(seq)}

\* The rows of the tables t, of any kind, that the invocation inv wrote.
RowsBy(t, inv) ==
    {r \in Range(t.projects) \cup Range(t.rulebooks) \cup Range(t.rulesets)
           \cup Range(t.rules) : r.inv = inv}

StoredNames == {b.name : b \in storage}

----------------------------------------------------------------------------
\* C1: once an invocation that created its Project row has ended in failure,
\* neither the committed tables nor any open transaction hold a Project,
\* Rulebook, Ruleset or Rule row that this invocation wrote.
C1_FailedImportLeavesNoRows ==
    \A i \in Failed :
        results[i].project # 0 =>
            /\ RowsBy(db, i) = {}
            /\ \A p \in Procs : RowsBy(tx[p], i) = {}

\* An import failed at the archive step, after Project, Rulebook, Ruleset and
\* Rule rows had been written.
C1_Witness ==
    \E i \in Failed :
        /\ results[i].error = "ArchiveError"
        /\ results[i].project # 0
        /\ seqs.rule > 0

----------------------------------------------------------------------------
\* What a complete import of a repository consists of.

\* The files of the walk that the scanner yields.
IsYielded(f) ==
    /\ SplitextExt(f.name) \in YAML_EXTENSIONS
    /\ f.readable
    /\ SafeLoad(f.raw).ok
    /\ _is_rulebook_file(SafeLoad(f.raw).doc) = "True"

RECURSIVE CountRules(_)
\* The number of rules of the rulesets items.
CountRules(items) ==
    IF items = <<>> THEN 0
    ELSE Len(ValueAt(Head(items), RULES_KEY).items) + CountRules(Tail(items))

RECURSIVE SumOver(_, _)
SumOver(docs, rulesNotRulesets) ==
    IF docs = <<>> THEN 0
    ELSE (IF rulesNotRulesets THEN CountRules(Head(docs).items) ELSE Len(Head(docs).items))
         + SumOver(Tail(docs), rulesNotRulesets)

YieldedDocs(repo) ==
    LET yielded == SelectSeq(repo.files, IsYielded)
    IN  [k \in 1..Len(yielded) |-> SafeLoad(yielded[k].raw).doc]

\* The Project row pr of the tables t is complete: it is the row of an
\* invocation that returned its Project, its archive is attached and stored,
\* and it has as many Rulebook, Ruleset and Rule rows as its repository holds.
CompleteProject(t, pr) ==
    LET docs     == YieldedDocs(remote[pr.url])
        rbIds    == {r.id : r \in {r \in Range(t.rulebooks) : r.project = pr.id}}
        rsIds    == {r.id : r \in {r \in Range(t.rulesets) : r.rulebook \in rbIds}}
        ruleIds  == {r.id : r \in {r \in Range(t.rules) : r.ruleset \in rsIds}}
    IN  /\ pr.inv \in Succeeded
        /\ results[pr.inv].project = pr.id
        /\ pr.git_hash = remote[pr.url].head
        /\ pr.archive_file = ArchiveFilename(pr.id)
        /\ pr.archive_file \in StoredNames
        /\ Cardinality(rbIds) = Len(docs)
        /\ Cardinality(rsIds) = SumOver(docs, FALSE)
        /\ Cardinality(ruleIds) = SumOver(docs, TRUE)

NoPartialVisible == \A i \in 1..Len(db.projects) : CompleteProject(db, db.projects[i])

IsPrefix(a, b) == Len(a) <= Len(b) /\ SubSeq(b, 1, Len(a)) = a

\* A step never removes or changes a committed row.
CommittedKept ==
    /\ IsPrefix(db.projects, db'.projects)
    /\ IsPrefix(db.rulebooks, db'.rulebooks)
    /\ IsPrefix(db.rulesets, db'.rulesets)
    /\ IsPrefix(db.rules, db'.rules)

\* A step of one invocation leaves the pending rows of every other one alone.
OthersUntouched == \A q \in Procs : q # actor' => tx'[q] = tx[q]

\* C2: with import_project invocations interleaved on one store, every Project
\* row in the committed tables is complete (written by an invocation that
\* returned successfully, with all of its Rulebook, Ruleset and Rule rows and
\* its archive attached), and no step of an invocation, its rollback included,
\* removes or changes a committed row or a pending row of another invocation.
C2_NoPartialProjectVisible ==
    []NoPartialVisible /\ [][CommittedKept /\ OthersUntouched]_vars

\* Two invocations overlapped (the one that started first created its Project
\* row second); one committed its Project, the other failed and was rolled back.
C2_Witness ==
    \E i \in Succeeded, j \in Failed :
        /\ j < i
        /\ results[j].project > results[i].project
        /\ \E k \in 1..Len(db.projects) : db.projects[k].inv = i

\* C3: the temporary directory of an invocation exists while the invocation is
\* inside the with block of run; it is removed when the block is left, before
\* the transaction is committed or rolled back, and is gone once the invocation
\* has ended, whatever its outcome.
C3_TempdirRemovedOnEveryExit ==
    /\ \A i \in Ended : i \notin DOMAIN tempdirs
    /\ \A p \in InWith : loc[p].inv \in DOMAIN tempdirs
    /\ \A p \in Running \ InWith : loc[p].inv \notin DOMAIN tempdirs

\* One invocation has returned its Project; another, failed after its clone had
\* been written into its temporary directory, has left the with block and is
\* about to roll back: its directory is gone, its rows are still pending.
C3_Witness ==
    /\ Succeeded # {}
    /\ \E p \in Running :
          /\ pc[p] = "exit_atomic"
          /\ loc[p].err \in {"ProjectImportError", "ArchiveError", "DatabaseError"}
          /\ tx[p].projects # <<>>
          /\ loc[p].inv \notin DOMAIN tempdirs
          /\ loc[p].inv \notin DOMAIN results

\* C4: an import of a repository without a rulebooks/ directory never returns a
\* Project and leaves no Project row; when it got as far as creating its
\* Project row, the error it ends with is the missing-directory error.
C4_MissingRulebooksDirFails ==
    \A i \in Ended :
        ~remote[results[i].url].has_rulebooks =>
            /\ results[i].error # ""
            /\ RowsBy(db, i) = {}
            /\ results[i].project # 0 => results[i].error = "ProjectImportError"

\* An import of the repository without rulebooks/ created its Project row and
\* ended with the missing-directory error.
C4_Witness ==
    \E i \in Ended :
        /\ ~remote[results[i].url].has_rulebooks
        /\ results[i].project # 0
        /\ results[i].error = "ProjectImportError"

\* C5: an invocation whose clone failed has attempted no persistence write when
\* it leaves run, has created no Project row, and leaves nothing in the store.
C5_CloneFailureWritesNothing ==
    /\ \A p \in Procs :
          (pc[p] \in {"exit", "exit_atomic"} /\ loc[p].err = "TransferError") =>
              /\ loc[p].writes = 0
              /\ loc[p].project = 0
              /\ tx[p] = EmptyTables
    /\ \A i \in Ended :
          results[i].error = "TransferError" =>
              /\ results[i].project = 0
              /\ RowsBy(db, i) = {}

\* An invocation has ended with the clone's transfer error.
C5_Witness == \E i \in Ended : results[i].error = "TransferError"

----------------------------------------------------------------------------
\* The scanner's contract, stated on the files of the repository.

IsCandidate(f) == SplitextExt(f.name) \in YAML_EXTENSIONS

\* A list whose every element is a mapping with the key "rules".
ShapedAsRulebook(doc) ==
    /\ doc.t = "list"
    /\ \A k \in 1..Len(doc.items) :
          doc.items[k].t = "map" /\ HasKey(doc.items[k], RULES_KEY)

\* A candidate file that cannot be read, is not valid YAML, or is not
\* rulebook-shaped.
PerFileFault(f) ==
    /\ IsCandidate(f)
    /\ \/ ~f.readable
       \/ ~SafeLoad(f.raw).ok
       \/ ~ShapedAsRulebook(SafeLoad(f.raw).doc)

NoPerFileFault(f) == ~PerFileFault(f)

\* The name of the Rulebook of the file f: its path from the repository root.
PathInRepo(f) == Flatten(<<RULEBOOKS_DIR>> \o f.dir \o <<f.name>>, <<"/">>)

RECURSIVE ImportFault(_)
\* The exception the per-rulebook import of the files raises by itself (no
\* clone, database, archive or storage failure), "" when it raises none.
ImportFault(files) ==
    IF files = <<>> THEN ""
    ELSE IF ~IsYielded(Head(files)) THEN ImportFault(Tail(files))
    ELSE LET doc   == SafeLoad(Head(files).raw).doc
             sets  == BuildRulesets(doc, 0, 0)
             rules == RuleObjs(BulkCreate(sets.objs, 0), doc.items, 0)
         IN  IF sets.err # "" THEN sets.err
             ELSE IF rules.err # "" THEN rules.err
             ELSE ImportFault(Tail(files))

\* C6: files with a per-file fault never abort an import and contribute nothing:
\* an import ends as the import of the same tree without those files would, with
\* the same exception of the per-rulebook import if it raises one, and with the
\* Rulebooks of the remaining files if it succeeds.
C6_PerFileFaultsNeverAbort ==
    \A i \in Ended :
        LET files == remote[results[i].url].files
            kept  == SelectSeq(files, NoPerFileFault)
            wanted == SelectSeq(kept, IsCandidate)
        IN  /\ results[i].error \in {"TypeError", "KeyError"} =>
                  ImportFault(kept) = results[i].error
            /\ results[i].error = "" =>
                  /\ Len(db.rulebooks) = Len(wanted)
                  /\ \A k \in 1..Len(wanted) : db.rulebooks[k].name = PathInRepo(wanted[k])

\* The diagnostics of process p name the file j of its clone: the scanner
\* opened the file and skipped it.
SkippedWithDiagnostic(p, j) ==
    LET f    == Clone(p).files[j]
        path == RepoDir(loc[p].inv) \o <<RULEBOOKS_DIR>> \o f.dir \o <<f.name>>
    IN  \E k \in 1..Len(log[p]) : log[p][k].path = path

\* C7: of the candidate files the scanner has read and parsed, it yields
\* exactly those whose document is a list of mappings that each have the key
\* "rules"; the others it skips with a diagnostic.
C7_YieldIffListOfRulesMappings ==
    \A p \in InWith :
        loc[p].idx >= 1 =>
            \A j \in 1..(loc[p].idx - 1) :
                LET f == Clone(p).files[j]
                IN  (IsCandidate(f) /\ f.readable /\ SafeLoad(f.raw).ok) =>
                        /\ ~SkippedWithDiagnostic(p, j) <=> ShapedAsRulebook(SafeLoad(f.raw).doc)
                        /\ (j = loc[p].idx - 1 /\ pc[p] = "import_rulebook") =>
                               ShapedAsRulebook(SafeLoad(f.raw).doc)

----------------------------------------------------------------------------
\* The rows of one rulebook against its document.

\* The file of the repository that the Rulebook row rb of the tables t names.
FileOfRulebook(t, rb) ==
    LET pr   == CHOOSE r \in Range(t.projects) : r.id = rb.project
        repo == remote[pr.url]
    IN  CHOOSE f \in Range(repo.files) : PathInRepo(f) = rb.name

IsAscending(rows) == \A i, j \in 1..Len(rows) : i < j => rows[i].id < rows[j].id

\* The Rule rows under the Ruleset row rs are the rules of the entry, in order.
RulesMatchEntry(t, rs, entry) ==
    LET IsChild(r) == r.ruleset = rs.id
        rows  == SelectSeq(t.rules, IsChild)
        rules == ValueAt(entry, RULES_KEY).items
    IN  /\ Len(rows) = Len(rules)
        /\ IsAscending(rows)
        /\ \A k \in 1..Len(rules) :
              /\ rows[k].name = ValueAt(rules[k], NAME_KEY).s
              /\ rows[k].action = ValueAt(rules[k], ACTION_KEY)

\* The Ruleset rows under the Rulebook row rb are the entries of its document,
\* in order, each with the rules of its entry.
RulebookMatchesDocument(t, rb) ==
    LET doc     == SafeLoad(FileOfRulebook(t, rb).raw).doc
        IsChild(r) == r.rulebook = rb.id
        rows    == SelectSeq(t.rulesets, IsChild)
    IN  /\ Len(rows) = Len(doc.items)
        /\ IsAscending(rows)
        /\ \A i \in 1..Len(rows) :
              /\ rows[i].name = ValueAt(doc.items[i], NAME_KEY).s
              /\ RulesMatchEntry(t, rows[i], doc.items[i])

\* C8: for every rulebook whose import has completed, pending or committed, the
\* Ruleset rows of its Rulebook are the N entries of its document in order and
\* by name, and the Rule rows under the i-th Ruleset are exactly the rules of the
\* i-th entry, in order, with the same name and action.
C8_RowsMirrorDocument ==
    /\ \A k \in 1..Len(db.rulebooks) : RulebookMatchesDocument(db, db.rulebooks[k])
    /\ \A p \in Procs :
          (\/ pc[p] \in {"find_rulebooks", "archive", "save_archive"}
           \/ pc[p] \in {"exit", "exit_atomic"} /\ loc[p].err = "") =>
              \A k \in 1..Len(tx[p].rulebooks) :
                  RulebookMatchesDocument(tx[p], tx[p].rulebooks[k])

\* A committed Rulebook has two Rulesets of the same name, each with rules.
C8_Witness ==
    \E a, b \in Range(db.rulesets) :
        /\ a.id < b.id
        /\ a.rulebook = b.rulebook
        /\ a.name = b.name
        /\ \E r \in Range(db.rules) : r.ruleset = a.id
        /\ \E r \in Range(db.rules) : r.ruleset = b.id

----------------------------------------------------------------------------
\* The end-to-end scenario: rulebooks/a.yml with one ruleset "r1" of two rules
\* and no "sources" key.

ScenarioRepo == Repo("c0ffee", <<File(<<>>, A_YML, RAW_A)>>)

ScenarioImported == remote[URL_TREE] = ScenarioRepo /\ Succeeded # {}

RULEBOOKS_A_YML == RULEBOOKS_DIR \o <<"/">> \o A_YML

\* The committed rows of the scenario, with the Rulebook named rulebook_name.
ScenarioRows(rulebook_name) ==
    /\ Len(db.projects) = 1
    /\ Len(db.rulebooks) = 1
    /\ db.rulebooks[1].project = db.projects[1].id
    /\ db.rulebooks[1].name = rulebook_name
    /\ Len(db.rulesets) = 1
    /\ db.rulesets[1].rulebook = db.rulebooks[1].id
    /\ db.rulesets[1].name = S_r1
    /\ db.rulesets[1].sources.items = <<>>
    /\ Len(db.rules) = 2
    /\ \A k \in 1..2 : db.rules[k].ruleset = db.rulesets[1].id
    /\ db.rules[1].name = S_say /\ db.rules[1].action = ActDebug
    /\ db.rules[2].name = S_stop /\ db.rules[2].action = ActNone

\* C9, as claimed: the scenario commits 1 Project, 1 Rulebook named "a.yml",
\* 1 Ruleset "r1" without sources and its 2 Rules.
C9_ScenarioNamedAYml == ScenarioImported => ScenarioRows(A_YML)

\* C9, amended: the scenario commits 1 Project, 1 Rulebook named
\* "rulebooks/a.yml" (the path from the repository root), 1 Ruleset "r1" without
\* sources and its 2 Rules.
C9_ScenarioNamedFromRepoRoot == ScenarioImported => ScenarioRows(RULEBOOKS_A_YML)

\* The import of the scenario repository has returned its Project.
C9_Witness == ScenarioImported /\ Len(db.rules) = 2

----------------------------------------------------------------------------
\* The Project rows, committed, of the invocation i.
ProjectsBy(i) == {r \in Range(db.projects) : r.inv = i}

\* The committed rows below the Project id are those the invocation i wrote.
OwnRows(i, id) ==
    LET rbs == {r \in Range(db.rulebooks) : r.project = id}
        rss == {r \in Range(db.rulesets) : r.rulebook \in {x.id : x \in rbs}}
        rls == {r \in Range(db.rules) : r.ruleset \in {x.id : x \in rss}}
    IN  rbs \cup rss \cup rls = RowsBy(db, i) \ ProjectsBy(i)

\* C10: two invocations that both returned a Project for the same url leave two
\* complete Project rows with distinct ids, each with the rows its own
\* invocation wrote below it.
C10_NoDeduplication ==
    \A i, j \in Succeeded :
        (i # j /\ results[i].url = results[j].url) =>
            /\ results[i].project # results[j].project
            /\ \A k \in {i, j} :
                  /\ Cardinality(ProjectsBy(k)) = 1
                  /\ \A pr \in ProjectsBy(k) :
                        /\ pr.id = results[k].project
                        /\ CompleteProject(db, pr)
                        /\ OwnRows(k, pr.id)

\* Two overlapping invocations of the same url (the later one created its
\* Project row first) have both returned, with the same commit id.
C10_Witness ==
    \E i, j \in Succeeded :
        /\ i < j
        /\ results[i].url = results[j].url
        /\ results[j].project < results[i].project
        /\ \A pr \in ProjectsBy(i) \cup ProjectsBy(j) : pr.git_hash = "c0ffee"

----------------------------------------------------------------------------
\* The archive blobs in storage that the invocation i wrote.
BlobsBy(i) == {b \in storage : b.inv = i}

\* C11: once an invocation has ended in failure, no archive blob that it wrote
\* remains in storage.
C11_NoBlobOfFailedImport == \A i \in Failed : BlobsBy(i) = {}

----------------------------------------------------------------------------
\* name is the decimal digits of id, left-padded with zeros to ten digits,
\* followed by ".archive.tar.gz".
IsPaddedIdName(name, id) ==
    LET digits == Decimal(id)
        suffix == <<".", "a", "r", "c", "h", "i", "v", "e", ".", "t", "a", "r", ".", "g", "z">>
        width  == Len(name) - Len(suffix)
        zeros  == width - Len(digits)
    IN  /\ width = (IF Len(digits) > 10 THEN Len(digits) ELSE 10)
        /\ SubSeq(name, width + 1, Len(name)) = suffix
        /\ SubSeq(name, zeros + 1, width) = digits
        /\ \A k \in 1..zeros : name[k] = "0"

NAME_OF_42 ==
    <<"0", "0", "0", "0", "0", "0", "0", "0", "4", "2",
      ".", "a", "r", "c", "h", "i", "v", "e", ".", "t", "a", "r", ".", "g", "z">>

\* C12: the committed Project of every successful import has its archive
\* attached and stored under the name made of its id zero-padded to ten digits
\* and ".archive.tar.gz" (id 42 gives "0000000042.archive.tar.gz"); and a blob
\* is stored, and a pending Project row gets its archive attached, only when
\* the archive of the invocation has been produced in its temporary directory.
C12_ArchiveAttachedUnderPaddedId ==
    /\ ArchiveFilename(42) = NAME_OF_42
    /\ \A i \in Succeeded :
          /\ ProjectsBy(i) # {}
          /\ \A pr \in ProjectsBy(i) :
                /\ IsPaddedIdName(pr.archive_file, pr.id)
                /\ [name |-> pr.archive_file, inv |-> i] \in storage
    /\ \A p \in InWith :
          (\/ BlobsBy(loc[p].inv) # {}
           \/ \E r \in Range(tx[p].projects) : r.archive_file # <<>>)
             => tempdirs[loc[p].inv].archive

\* Two imports have succeeded; the Project of the second one has the id 2 and
\* the archive "0000000002.archive.tar.gz".
C12_Witness ==
    \E i \in Succeeded : \E pr \in ProjectsBy(i) :
        /\ pr.id = 2
        /\ pr.archive_file = <<"0", "0", "0", "0", "0", "0", "0", "0", "0", "2">> \o ARCHIVE_SUFFIX
        /\ Cardinality(Succeeded) = 2

----------------------------------------------------------------------------
EndsWith(s, suffix) ==
    Len(s) >= Len(suffix) /\ SubSeq(s, Len(s) - Len(suffix) + 1, Len(s)) = suffix

\* The file name ends in ".yml" or ".yaml", in lower case.
HasYamlSuffix(name) ==
    \/ EndsWith(name, <<".", "y", "m", "l">>)
    \/ EndsWith(name, <<".", "y", "a", "m", "l">>)

\* The path of the file f in the clone of the invocation inv.
PathInClone(inv, f) == RepoDir(inv) \o <<RULEBOOKS_DIR>> \o f.dir \o <<f.name>>

\* C13: a file under rulebooks/, at any depth, whose name does not end in ".yml"
\* or ".yaml" is not opened by the scanner when the walk passes it, no diagnostic
\* names it, it is never the yielded rulebook, and no Rulebook row, pending or
\* committed, carries its path, whatever its content.
C13_OtherExtensionsIgnored ==
    /\ \A p \in InWith :
          loc[p].idx >= 1 =>
              \A j \in 1..(loc[p].idx - 1) :
                  LET f == Clone(p).files[j]
                  IN  ~HasYamlSuffix(f.name) =>
                          /\ ~FindRulebooksStep(RepoDir(loc[p].inv), f).opened
                          /\ \A k \in 1..Len(log[p]) :
                                log[p][k].path # PathInClone(loc[p].inv, f)
                          /\ \A k \in 1..Len(loc[p].info) :
                                loc[p].info[k].relpath # PathInRepo(f)
                          /\ \A r \in Range(tx[p].rulebooks) : r.name # PathInRepo(f)
    /\ \A i \in Ended :
          \A f \in Range(remote[results[i].url].files) :
              ~HasYamlSuffix(f.name) =>
                  \A r \in Range(db.rulebooks) : r.inv = i => r.name # PathInRepo(f)

\* The walk of rulebooks/ has yielded a first file, whose rows are written, has
\* passed a file "d.txt" of a subdirectory that holds a valid rulebook, and is
\* exhausted.
C13_Witness ==
    \E p \in InWith :
        /\ pc[p] = "archive"
        /\ Len(Clone(p).files) = 2
        /\ ~HasYamlSuffix(Clone(p).files[2].name)
        /\ Clone(p).files[2].raw = RAW_A
        /\ Clone(p).files[2].dir # <<>>
        /\ Len(tx[p].rulebooks) = 1
        /\ Len(tx[p].rules) > 0

----------------------------------------------------------------------------
\* A candidate file whose document is a list that has a mapping without the
\* key "rules" among its entries.
HasEntryWithoutRules(f) ==
    /\ IsCandidate(f) /\ f.readable /\ SafeLoad(f.raw).ok
    /\ LET doc == SafeLoad(f.raw).doc
       IN  /\ doc.t = "list"
           /\ \E k \in 1..Len(doc.items) :
                 doc.items[k].t = "map" /\ ~HasKey(doc.items[k], RULES_KEY)

\* C14, as stated: a document with a ruleset entry missing the key "rules" is
\* yielded by the scanner (it is not skipped with a diagnostic), and an import
\* of a repository that holds such a document never succeeds.
C14_MissingRulesYieldedAndFatal ==
    /\ \A p \in InWith :
          loc[p].idx >= 1 =>
              \A j \in 1..(loc[p].idx - 1) :
                  HasEntryWithoutRules(Clone(p).files[j]) => ~SkippedWithDiagnostic(p, j)
    /\ \A i \in Succeeded :
          \A f \in Range(remote[results[i].url].files) : ~HasEntryWithoutRules(f)

\* C14, amended: a document with a ruleset entry that is a mapping without the
\* key "rules" is rejected by the scanner: the file is skipped with a
\* diagnostic, it is never the yielded rulebook, no Rulebook row carries its
\* path, and it does not abort the import: no fault of rule extraction is
\* pending when it is the last file the walk passed, and an import whose
\* candidates are all such files raises none and commits no Rulebook.
C14_MissingRulesRejectedByScanner ==
    /\ \A p \in InWith :
          loc[p].idx >= 1 =>
              \A j \in 1..(loc[p].idx - 1) :
                  LET f == Clone(p).files[j]
                  IN  HasEntryWithoutRules(f) =>
                          /\ SkippedWithDiagnostic(p, j)
                          /\ \A k \in 1..Len(loc[p].info) :
                                loc[p].info[k].relpath # PathInRepo(f)
                          /\ \A r \in Range(tx[p].rulebooks) : r.name # PathInRepo(f)
                          /\ j = loc[p].idx - 1 =>
                                loc[p].err \notin {"KeyError", "TypeError"}
    /\ \A i \in Ended :
          LET files == Range(remote[results[i].url].files)
          IN  /\ \A f \in files :
                    HasEntryWithoutRules(f) =>
                        \A r \in Range(db.rulebooks) : r.inv = i => r.name # PathInRepo(f)
              /\ (\A f \in files : HasEntryWithoutRules(f) \/ ~IsCandidate(f)) =>
                    /\ results[i].error \notin {"KeyError", "TypeError"}
                    /\ db.rulebooks = <<>>

\* An import has succeeded whose repository holds a.yml with the document
\* [{name: r1}] and a second, valid rulebook file: one Rulebook is committed.
C14_Witness ==
    \E i \in Succeeded :
        LET files == remote[results[i].url].files
        IN  /\ Len(files) = 2
            /\ files[1].raw = RAW_NORULES
            /\ HasEntryWithoutRules(files[1])
            /\ Len(db.rulebooks) = 1
            /\ db.rulebooks[1].name = PathInRepo(files[2])

----------------------------------------------------------------------------
\* The pending exception of process p is the one of the step that failed: what
\* the invocation has done so far is what precedes that step, and nothing more.
ErrorMatchesStep(p) ==
    LET e == loc[p].err
        d == tempdirs[loc[p].inv]
    IN  /\ e = "TransferError" => d.src = <<>> /\ tx[p] = EmptyTables
        /\ e = "ResolutionError" =>
              d.src # <<>> /\ loc[p].commit_id = "" /\ tx[p] = EmptyTables
        /\ e = "ProjectImportError" =>
              /\ ~Clone(p).has_rulebooks
              /\ loc[p].idx = 0
              /\ tx[p].rulebooks = <<>>
              /\ ~d.archive
        /\ e \in {"KeyError", "TypeError"} =>
              /\ loc[p].info # <<>>
              /\ tx[p].rulebooks # <<>>
              /\ tx[p].rulebooks[Len(tx[p].rulebooks)].name = loc[p].info[1].relpath
              /\ ~d.archive
        /\ e = "ArchiveError" =>
              /\ loc[p].idx = Len(Clone(p).files) + 1
              /\ ~d.archive
        /\ e = "OSError" => d.archive /\ BlobsBy(loc[p].inv) = {}
        /\ e # "" => \A r \in Range(tx[p].projects) : r.archive_file = <<>>

\* Once process p has a pending exception, its only steps are the two that
\* leave run.  The first leaves the with block: it removes the temporary
\* directory and nothing else.  The second leaves the atomic block: it rolls
\* the transaction back and hands that exception to the caller.  Neither scans
\* a file, writes a row, produces an archive or stores a blob.
OnlyLeavesAfterError(p) ==
    (loc[p].err # "" /\ actor' = p) =>
        /\ seqs' = seqs
        /\ storage' = storage
        /\ db' = db
        /\ log'[p] \in {log[p], <<>>}
        /\ pc[p] = "exit" =>
              /\ pc'[p] = "exit_atomic"
              /\ loc[p].inv \notin DOMAIN tempdirs'
              /\ loc'[p] = loc[p]
              /\ tx' = tx
              /\ results' = results
        /\ pc[p] = "exit_atomic" =>
              /\ pc'[p] = "idle"
              /\ tempdirs' = tempdirs
              /\ loc[p].inv \in DOMAIN results'
              /\ results'[loc[p].inv].error = loc[p].err
              /\ tx'[p] = EmptyTables

\* The step in which an exception is raised writes no row and moves the process
\* to the exit of run.
FailingStepWritesNoRow(p) ==
    (loc[p].err = "" /\ loc'[p].err # "") =>
        /\ pc'[p] = "exit"
        /\ tx' = tx
        /\ db' = db
        /\ seqs' = seqs
        /\ loc'[p].idx = loc[p].idx

\* C15: the import aborts on the first fatal error: a process with a pending
\* exception is at the exit of run, having done only what precedes the failed
\* step; the failing step writes no row; and the only later steps of the
\* invocation leave the with block and the atomic block, run no pipeline step
\* and give the caller that exception unchanged.
C15_AbortOnFirstFatalError ==
    /\ [](\A p \in Running :
             loc[p].err # "" =>
                 /\ pc[p] \in {"exit", "exit_atomic"}
                 /\ pc[p] = "exit" => ErrorMatchesStep(p))
    /\ [][\A p \in Procs : OnlyLeavesAfterError(p) /\ FailingStepWritesNoRow(p)]_vars

\* An import of two valid-looking files has ended with the KeyError of the first
\* one (its entry has no "name"): the second file, a valid rulebook, was never
\* imported, one Rulebook id was ever drawn and nothing is committed.
C15_Witness ==
    \E i \in Failed :
        LET files == remote[results[i].url].files
        IN  /\ results[i].error = "KeyError"
            /\ Len(files) = 2
            /\ files[1].raw = RAW_NONAME
            /\ IsYielded(files[2])
            /\ ImportFault(<<files[2]>>) = ""
            /\ seqs.rulebook = 1
            /\ seqs.rule = 0
            /\ db = EmptyTables

----------------------------------------------------------------------------
\* The ids of the rows of a table.
Ids(rows) == {rows[k].id : k \in 1..Len(rows)}

\* In the tables t every Rule refers to a Ruleset of t, every Ruleset to a
\* Rulebook of t and every Rulebook to a Project of t.
ParentsExist(t) ==
    /\ \A r \in Range(t.rules) : r.ruleset \in Ids(t.rulesets)
    /\ \A r \in Range(t.rulesets) : r.rulebook \in Ids(t.rulebooks)
    /\ \A r \in Range(t.rulebooks) : r.project \in Ids(t.projects)

\* The step adds rows to the table kind of process p.
Adds(p, kind) == Len(tx'[p][kind]) > Len(tx[p][kind])

\* Rows are written in the order Project, Rulebook, its Rulesets, its Rules:
\* a Project is the first row of a transaction; a Rulebook is written when the
\* Project exists and the previous Rulebook has had its Rulesets and Rules
\* written; Rulesets are written for the last Rulebook, which has none yet;
\* Rules are written for the Rulesets just written, which have none yet.
CreationOrder(p) ==
    LET rbs == tx[p].rulebooks
        rss == tx[p].rulesets
        new(kind) == {tx'[p][kind][k] : k \in (Len(tx[p][kind]) + 1)..Len(tx'[p][kind])}
    IN  /\ Adds(p, "projects") => tx[p] = EmptyTables
        /\ Adds(p, "rulebooks") =>
              /\ Len(tx[p].projects) = 1
              /\ pc[p] = "import_rulebook"
              /\ tx'[p].rulesets = rss /\ tx'[p].rules = tx[p].rules
        /\ Adds(p, "rulesets") =>
              /\ rbs # <<>>
              /\ \A r \in new("rulesets") : r.rulebook = rbs[Len(rbs)].id
              /\ \A r \in Range(rss) : r.rulebook # rbs[Len(rbs)].id
              /\ tx'[p].rules = tx[p].rules
        /\ Adds(p, "rules") =>
              /\ rbs # <<>>
              /\ \A r \in new("rules") :
                    \E s \in Range(rss) : s.id = r.ruleset /\ s.rulebook = rbs[Len(rbs)].id
              /\ \A r \in Range(tx[p].rules) :
                    \A s \in Range(rss) : s.id = r.ruleset => s.rulebook # rbs[Len(rbs)].id

\* C16: in every reachable state the committed rows, and the pending rows of
\* each invocation inside run, are referentially closed (every Rule has its
\* Ruleset, every Ruleset its Rulebook, every Rulebook its Project); and every
\* step writes rows in the order Project, Rulebook, that Rulebook's Rulesets,
\* that Rulebook's Rules.
C16_ParentsExistInEveryState ==
    /\ [](ParentsExist(db) /\ \A p \in Procs : ParentsExist(tx[p]))
    /\ [][\A p \in Procs : CreationOrder(p)]_vars

\* An invocation is inside run with pending rows of all four kinds for two
\* rulebooks, nothing of it committed.
C16_Witness ==
    \E p \in Running :
        /\ Len(tx[p].projects) = 1
        /\ Len(tx[p].rulebooks) = 2
        /\ Len(tx[p].rulesets) > 2
        /\ Len(tx[p].rules) > 2
        /\ db = EmptyTables

----------------------------------------------------------------------------
\* The sources of the Ruleset row rs of the tables t are what the lookup of its
\* name in the expansion mapping of its rulebook's document gives.
SourcesAreLookup(t, rs) ==
    LET rb  == CHOOSE r \in Range(t.rulebooks) : r.id = rs.rulebook
        doc == SafeLoad(FileOfRulebook(t, rb).raw).doc
        map == expand_ruleset_sources(doc).map
    IN  /\ rs.name \in DOMAIN map => rs.sources = [present |-> TRUE, items |-> map[rs.name]]
        /\ rs.name \notin DOMAIN map => rs.sources = [present |-> FALSE, items |-> <<>>]

SameNameSameSources(t) ==
    \A a, b \in Range(t.rulesets) :
        (a.rulebook = b.rulebook /\ a.name = b.name) => a.sources = b.sources

\* C17: the sources of every Ruleset row, pending or committed, are the result
\* of looking its name up in the expansion mapping of its rulebook's document:
\* the mapped sequence when the name is in the mapping, the absent value (no
\* error) when it is not; so the Rulesets of one Rulebook that share a name
\* have the same sources.
C17_SourcesLookedUpByName ==
    /\ \A rs \in Range(db.rulesets) : SourcesAreLookup(db, rs)
    /\ SameNameSameSources(db)
    /\ \A p \in Procs :
          /\ \A rs \in Range(tx[p].rulesets) : SourcesAreLookup(tx[p], rs)
          /\ SameNameSameSources(tx[p])

\* Two Rulebooks are committed, imported with the adapter that maps only the
\* rulesets that declare sources.  One has two Rulesets named "r1", of which
\* only the first declares a source: both carry its expansion.  The other has
\* a Ruleset whose name is not in the mapping of its document: its sources are
\* absent, and its import raised nothing.
C17_Witness ==
    /\ Succeeded # {}
    /\ \E a, b \in Range(db.rulesets) :
          /\ a.id < b.id
          /\ a.rulebook = b.rulebook
          /\ a.name = S_r1 /\ b.name = S_r1
          /\ a.sources = b.sources
          /\ a.sources.present /\ a.sources.items # <<>>
          /\ LET rb == CHOOSE r \in Range(db.rulebooks) : r.id = a.rulebook
             IN  SafeLoad(FileOfRulebook(db, rb).raw).doc = DOC_DUP
    /\ \E c \in Range(db.rulesets) :
          LET rb  == CHOOSE r \in Range(db.rulebooks) : r.id = c.rulebook
              doc == SafeLoad(FileOfRulebook(db, rb).raw).doc
          IN  /\ c.name \notin DOMAIN expand_ruleset_sources(doc).map
              /\ ~c.sources.present

----------------------------------------------------------------------------
\* How far the invocation of process p has come, read from what it has done:
\* the clone is in its temporary directory, the commit id is resolved, its
\* Project row is pending, the walk of rulebooks/ is exhausted, the archive is
\* produced, the archive is attached.
Cloned(p)    == tempdirs[loc[p].inv].src # <<>>
Resolved(p)  == loc[p].commit_id # ""
HasProject(p) == tx[p].projects # <<>>
Exhausted(p) == Cloned(p) /\ loc[p].idx = Len(Clone(p).files) + 1 /\ loc[p].info = <<>>
Archived(p)  == tempdirs[loc[p].inv].archive
Attached(p)  == \E r \in Range(tx[p].projects) : r.archive_file # <<>>

\* Every yielded file of the clone of p has its Rulebook row, with the Ruleset
\* and Rule rows of its document.
AllYieldedImported(p) ==
    LET yielded == SelectSeq(Clone(p).files, IsYielded)
    IN  /\ Len(tx[p].rulebooks) = Len(yielded)
        /\ \A k \in 1..Len(yielded) :
              /\ tx[p].rulebooks[k].name = PathInRepo(yielded[k])
              /\ RulebookMatchesDocument(tx[p], tx[p].rulebooks[k])

\* C18: within one invocation the steps happen in the order clone, resolve,
\* create Project, scan and import, archive, attach, commit.  In every state:
\* a resolved commit id needs the clone; a Project row needs the clone and the
\* resolved id, which it carries; a scan or a Rulebook row needs the Project
\* row; the archive needs the walk exhausted and every yielded rulebook
\* imported in full; the attached archive needs the archive; and rows of an
\* invocation are committed only after its archive was attached and stored.
C18_StepsInPipelineOrder ==
    /\ \A p \in InWith :
          /\ Resolved(p) => Cloned(p) /\ loc[p].commit_id = Clone(p).head
          /\ HasProject(p) =>
                /\ Cloned(p) /\ Resolved(p)
                /\ \A r \in Range(tx[p].projects) : r.git_hash = loc[p].commit_id
          /\ (loc[p].idx > 0 \/ log[p] # <<>> \/ tx[p].rulebooks # <<>>) => HasProject(p)
          /\ Archived(p) => HasProject(p) /\ Exhausted(p) /\ AllYieldedImported(p)
          /\ (Attached(p) \/ BlobsBy(loc[p].inv) # {}) => Archived(p)
    /\ \A pr \in Range(db.projects) :
          /\ pr.archive_file # <<>>
          /\ [name |-> pr.archive_file, inv |-> pr.inv] \in storage

\* An invocation has produced its archive after importing two rulebooks, and
\* has not attached it yet.
C18_Witness ==
    \E p \in InWith :
        /\ Archived(p)
        /\ ~Attached(p)
        /\ Len(tx[p].rulebooks) = 2
        /\ Len(tx[p].rules) > 0

----------------------------------------------------------------------------
\* The code point of a character of an archive file name.
Ord(c) ==
    CASE c = "." -> 46
      [] c = "0" -> 48 [] c = "1" -> 49 [] c = "2" -> 50 [] c = "3" -> 51
      [] c = "4" -> 52 [] c = "5" -> 53 [] c = "6" -> 54 [] c = "7" -> 55
      [] c = "8" -> 56 [] c = "9" -> 57
      [] c = "a" -> 97 [] c = "c" -> 99 [] c = "e" -> 101 [] c = "g" -> 103
      [] c = "h" -> 104 [] c = "i" -> 105 [] c = "r" -> 114 [] c = "t" -> 116
      [] c = "v" -> 118 [] c = "z" -> 122

\* a < b in the lexicographic order of strings.
LexLess(a, b) ==
    \E k \in 1..Len(b) :
        /\ k <= Len(a) + 1
        /\ SubSeq(a, 1, k - 1) = SubSeq(b, 1, k - 1)
        /\ k <= Len(a) => Ord(a[k]) < Ord(b[k])

\* a < b as numbers, for the decimal digits of two numbers without leading zeros.
NumLess(a, b) == Len(a) < Len(b) \/ (Len(a) = Len(b) /\ LexLess(a, b))

\* C19, as stated: the archive file names of two distinct ids are distinct, and
\* the names are in lexicographic order exactly when the ids are in numeric
\* order, for ids of any number of digits.
C19_NamesOrderedAsIds ==
    filenames # <<>> =>
        /\ ids[1] # ids[2] => filenames[1] # filenames[2]
        /\ LexLess(filenames[1], filenames[2]) <=> NumLess(ids[1], ids[2])

\* C19, amended: the archive file names of two distinct ids are distinct, for
\* ids of any number of digits; and the names are in lexicographic order
\* exactly when the ids are in numeric order, for ids of at most ten digits.
C19_NamesOrderedUpToTenDigits ==
    filenames # <<>> =>
        /\ ids[1] # ids[2] => filenames[1] # filenames[2]
        /\ (Len(ids[1]) <= 10 /\ Len(ids[2]) <= 10) =>
              (LexLess(filenames[1], filenames[2]) <=> NumLess(ids[1], ids[2]))

\* The names of the ids 999999999 and 1000000000 are formatted: the names are in
\* the order of the ids, the unpadded digits are not.
C19_Witness ==
    /\ filenames # <<>>
    /\ ids = <<Rep("9", 9), <<"1">> \o Rep("0", 9)>>
    /\ LexLess(filenames[1], filenames[2])
    /\ ~LexLess(ids[1], ids[2])

----------------------------------------------------------------------------
\* The repository has a rulebooks/ directory and the scanner yields none of
\* its files.
YieldsNothing(repo) ==
    /\ repo.has_rulebooks
    /\ \A f \in Range(repo.files) : ~IsYielded(f)

\* C20: an import of a repository whose rulebooks/ directory exists and yields
\* no rulebook never fails in the scan: it can end only with the exception of
\* the clone, the resolution, the archive, the storage or the database; and
\* when it ends without one, it has committed exactly one Project, complete and
\* with its archive attached and stored, and no Rulebook, Ruleset or Rule.
C20_NothingYieldedStillSucceeds ==
    \A i \in Ended :
        YieldsNothing(remote[results[i].url]) =>
            /\ results[i].error \in {"", "TransferError", "ResolutionError",
                                     "ArchiveError", "OSError", "DatabaseError"}
            /\ results[i].error = "" =>
                  /\ Cardinality(ProjectsBy(i)) = 1
                  /\ \A pr \in ProjectsBy(i) :
                        /\ pr.id = results[i].project
                        /\ CompleteProject(db, pr)
                        /\ pr.archive_file # <<>>
                        /\ [name |-> pr.archive_file, inv |-> i] \in storage
                  /\ RowsBy(db, i) = ProjectsBy(i)

\* An import has succeeded on a rulebooks/ directory of two files that were
\* both skipped, one of them a candidate that was opened.
C20_Witness ==
    \E i \in Succeeded :
        LET repo == remote[results[i].url]
        IN  /\ YieldsNothing(repo)
            /\ Len(repo.files) = 2
            /\ \E f \in Range(repo.files) : IsCandidate(f)
            /\ Len(db.projects) = 1
            /\ db.rulebooks = <<>>

====
